---- MODULE Spec2Model ----
(***************************************************************************)
(* serpy: the field compiler (SerializerMeta) and the serialization engine *)
(* (Serializer._serialize / to_value / data), modelled from                *)
(* src/serpy/serializer.py and src/serpy/fields.py.                        *)
(*                                                                         *)
(* Python values are modelled as strings: "None" is None, "'5'" the text   *)
(* '5', "5" the integer 5, "fn" a callable returning '5', "fnKey" a        *)
(* callable raising KeyError.  A call outcome is a record [exc, val] with  *)
(* exc = "" when it returned.  A dict is the sequence of its <<key, value>>*)
(* pairs in insertion order.                                               *)
(***************************************************************************)
EXTENDS Integers, Sequences, FiniteSets, TLC

VARIABLES classes, threads, inst, data_, pc, ret, runs, hist

vars == <<classes, threads, inst, data_, pc, ret, runs, hist>>

---------------------------------------------------------------------------
(* Bounds *)

\* reads of Serializer.data a thread performs
MaxReads == 2
\* elements of the collection passed with many=True
MaxObjs == 1
\* attribute changes applied to the subject by its owner
MaxMutations == 1

---------------------------------------------------------------------------
(* Python values and call outcomes *)

None == "None"
Missing == "Missing"

Ok(v) == [exc |-> "", val |-> v]
Raise(e) == [exc |-> e, val |-> None]

\* values an attribute / key of a subject may hold
Values == {None, "'5'", "fn", "fnKey"}
Keys == {"foo", "bar"}
\* a subject: each key holds a value or is absent
Objects == [Keys -> Values \cup {Missing}]

\* d[k] = x on an insertion-ordered dict: an existing key keeps its position
RECURSIVE DictSet(_, _, _)
DictSet(d, k, x) ==
    IF d = <<>> THEN << <<k, x>> >>
    ELSE IF Head(d)[1] = k THEN << <<k, x>> >> \o Tail(d)
    ELSE << Head(d) >> \o DictSet(Tail(d), k, x)

\* d.update(e)
RECURSIVE DictUpdate(_, _)
DictUpdate(d, e) ==
    IF e = <<>> THEN d
    ELSE DictUpdate(DictSet(d, Head(e)[1], Head(e)[2]), Tail(e))

DictKeys(d) == [i \in 1..Len(d) |-> d[i][1]]
DictHas(d, k) == \E i \in 1..Len(d) : d[i][1] = k
DictGet(d, k) == d[CHOOSE i \in 1..Len(d) : d[i][1] = k][2]

---------------------------------------------------------------------------
(* fields.py: field descriptors *)

\* Field and its subclasses.  LookupField is a user subclass of Field whose
\* to_value is a table lookup; IntMethodField a user subclass of MethodField
\* whose to_value is int.
FieldTypes == {"Field", "StrField", "IntField", "LookupField",
               "MethodField", "IntMethodField"}

\* Field.getter_takes_serializer / MethodField.getter_takes_serializer
getter_takes_serializer(type) == type \in {"MethodField", "IntMethodField"}

\* the to_value a field type binds; "base" is Field.to_value itself
ToValueOf(type) ==
    CASE type = "StrField" -> "str"
      [] type \in {"IntField", "IntMethodField"} -> "int"
      [] type = "LookupField" -> "lookup"
      [] OTHER -> "base"

\* Field._is_to_value_overridden
IsToValueOverridden(type) == ToValueOf(type) # "base"

\* six.text_type(value)
ToStr(v) ==
    CASE v = "'5'" -> Ok("'5'")
      [] v = "5" -> Ok("'5'")
      [] v = None -> Ok("'None'")
      [] OTHER -> Ok("'<function>'")

\* int(value)
ToInt(v) ==
    CASE v = "'5'" -> Ok("5")
      [] v = "5" -> Ok("5")
      [] v \in {"'None'", "'<function>'"} -> Raise("ValueError")
      [] OTHER -> Raise("TypeError")

\* a user to_value doing TABLE[value] with TABLE = {'5': 'five'}
ToLookup(v) == IF v = "'5'" THEN Ok("'five'") ELSE Raise("KeyError")

\* to_value(result) for a bound converter
ApplyToValue(conv, v) ==
    CASE conv = "str" -> ToStr(v)
      [] conv = "int" -> ToInt(v)
      [] conv = "lookup" -> ToLookup(v)
      [] OTHER -> Ok(v)

\* result(): calling a retrieved value with no arguments
Invoke(v) ==
    CASE v = "fn" -> Ok("'5'")
      [] v = "fnKey" -> Raise("KeyError")
      [] OTHER -> Raise("TypeError")

\* Field.__init__ / MethodField.__init__: "" stands for an argument left None
Descriptor(type, attr, call, label, required, method, id) ==
    [type |-> type, attr |-> attr, call |-> call, label |-> label,
     required |-> required, method |-> method, id |-> id]

\* methods a serializer class may define, and the subject key each one reads:
\* get_foo returns obj.foo, get_bar returns obj['bar']
MethodNames == {"get_foo", "get_bar"}
MethodKey(m) == IF m = "get_foo" THEN "foo" ELSE "bar"
DefaultMethodName(name) == IF name = "foo" THEN "get_foo" ELSE "get_bar"

---------------------------------------------------------------------------
(* serializer.py: classes and the field compiler (SerializerMeta) *)

RootClasses == {"object", "Field", "SerializerBase", "Serializer", "DictSerializer"}
\* names the class statements of a program may use, in definition order
UserClasses == <<"Base", "A", "B", "D">>
ClassNames == RootClasses \cup {UserClasses[i] : i \in 1..Len(UserClasses)}

Undefined ==
    [defined |-> FALSE, bases |-> <<>>, mro |-> <<>>, methods |-> {},
     default_getter |-> "", direct |-> <<>>, field_map |-> <<>>,
     compiled_fields |-> <<>>]

PlainClass(bases, mro) ==
    [defined |-> TRUE, bases |-> bases, mro |-> mro, methods |-> {},
     default_getter |-> "", direct |-> <<>>, field_map |-> <<>>,
     compiled_fields |-> <<>>]

SeqToSet(s) == {s[i] : i \in 1..Len(s)}
Reverse(s) == [i \in 1..Len(s) |-> s[Len(s) + 1 - i]]
RemoveAll(s, x) == SelectSeq(s, LAMBDA y : y # x)

RECURSIVE C3Merge(_)

\* head h taken, followed by the merge of what is left
C3Cons(h, rest) ==
    IF rest # <<>> /\ rest[Len(rest)] = "TypeError" THEN <<"TypeError">>
    ELSE <<h>> \o rest

C3Take(live, h) == C3Cons(h, C3Merge([j \in 1..Len(live) |-> RemoveAll(live[j], h)]))

\* the lists whose head is in no list's tail
C3Candidates(live) ==
    {i \in 1..Len(live) :
        \A j \in 1..Len(live) : Head(live[i]) \notin SeqToSet(Tail(live[j]))}

C3Pick(live, cands) ==
    IF cands = {} THEN <<"TypeError">>
    ELSE C3Take(live, Head(live[CHOOSE i \in cands : \A j \in cands : i <= j]))

\* the C3 merge behind cls.__mro__: take the first list head that is in no
\* list's tail; <<"TypeError">> marks an inconsistent hierarchy
C3Merge(lists) ==
    IF \A i \in 1..Len(lists) : lists[i] = <<>> THEN <<>>
    ELSE C3Pick(SelectSeq(lists, LAMBDA l : l # <<>>),
                C3Candidates(SelectSeq(lists, LAMBDA l : l # <<>>)))

\* name put before the merge m of its bases' linearizations
MroCons(name, m) ==
    IF m # <<>> /\ m[Len(m)] = "TypeError" THEN <<"TypeError">> ELSE <<name>> \o m

\* serializer_cls.__mro__ for a class statement `class name(*bases)`
Mro(reg, name, bases) ==
    MroCons(name, C3Merge([i \in 1..Len(bases) |-> reg[bases[i]].mro] \o <<bases>>))

\* issubclass(cls, SerializerBase)
IsSerializerBase(reg, mro) == "SerializerBase" \in SeqToSet(mro)

\* getattr(serializer_cls, method_name): own methods first, then the mro
HasMethod(reg, mro, own, m) ==
    m \in own \/ \E i \in 2..Len(mro) : m \in reg[mro[i]].methods

\* serializer_cls.default_getter, resolved along the mro
DefaultGetterOf(reg, mro, own) ==
    IF own # "" THEN own
    ELSE LET has == {i \in 2..Len(mro) : reg[mro[i]].default_getter # ""}
         IN  reg[mro[CHOOSE i \in has : \A j \in has : i <= j]].default_getter

\* Field.as_getter returns None (""); MethodField.as_getter returns
\* getattr(serializer_cls, method_name), raising AttributeError if absent
as_getter(field, name, reg, mro, own) ==
    IF getter_takes_serializer(field.type)
    THEN LET method_name == IF field.method = "" THEN DefaultMethodName(name)
                            ELSE field.method
         IN  IF HasMethod(reg, mro, own, method_name)
             THEN Ok([kind |-> "method", key |-> method_name])
             ELSE Raise("AttributeError")
    ELSE Ok([kind |-> "", key |-> ""])

\* lines 22-34 with g what as_getter returned
CompiledTuple(field, name, dg, g) ==
    [name |-> IF field.label # "" THEN field.label ELSE name,
     getter |-> IF g.kind = ""
                THEN [kind |-> dg,
                      key |-> IF field.attr # "" THEN field.attr ELSE name]
                ELSE g,
     to_value |-> IF IsToValueOverridden(field.type)
                  THEN ToValueOf(field.type) ELSE None,
     call |-> field.call,
     required |-> field.required,
     pass_self |-> getter_takes_serializer(field.type), id |-> field.id]

\* _compile_field_to_tuple
_compile_field_to_tuple(field, name, reg, mro, own, dg) ==
    CompiledTuple(field, name, dg, as_getter(field, name, reg, mro, own).val)

\* SerializerMeta._get_fields
RECURSIVE MergeBases(_, _, _)
MergeBases(reg, rmro, acc) ==
    IF rmro = <<>> THEN acc
    ELSE LET cls == Head(rmro)
         IN  MergeBases(reg, Tail(rmro),
                 IF IsSerializerBase(reg, reg[cls].mro)
                 THEN DictUpdate(acc, reg[cls].field_map) ELSE acc)

GetFieldsDirectFirst(direct_fields, reg, mro) ==
    DictUpdate(direct_fields, MergeBases(reg, Reverse(Tail(mro)), <<>>))
_get_fields(direct_fields, reg, mro) ==
    DictUpdate(MergeBases(reg, Reverse(Tail(mro)), <<>>), direct_fields)

\* SerializerMeta._compile_fields
_compile_fields(field_map, reg, mro, own, dg) ==
    [i \in 1..Len(field_map) |->
        _compile_field_to_tuple(field_map[i][2], field_map[i][1], reg, mro, own, dg)]

\* lines 94-98 for the merged field_map: as_getter may raise
NewClass(reg, bases, mro, direct_fields, methods, default_getter, field_map) ==
    IF \E i \in 1..Len(field_map) :
          as_getter(field_map[i][2], field_map[i][1], reg, mro, methods).exc # ""
    THEN Raise("AttributeError")
    ELSE Ok([defined |-> TRUE, bases |-> bases, mro |-> mro,
             methods |-> methods, default_getter |-> default_getter,
             direct |-> direct_fields, field_map |-> field_map,
             compiled_fields |->
                 _compile_fields(field_map, reg, mro, methods,
                                 DefaultGetterOf(reg, mro, default_getter))])

\* lines 91-98 for the linearization mro of the new class
NewWithMro(reg, bases, mro, direct_fields, methods, default_getter) ==
    IF mro = <<"TypeError">> THEN Raise("TypeError")
    ELSE NewClass(reg, bases, mro, direct_fields, methods, default_getter,
                  _get_fields(direct_fields, reg, mro))

\* SerializerMeta.__new__: the outcome of `class name(*bases)` whose body
\* declares direct_fields, methods and (optionally) default_getter
New(reg, name, bases, direct_fields, methods, default_getter) ==
    NewWithMro(reg, bases, Mro(reg, name, bases), direct_fields, methods,
               default_getter)

\* object, Field and SerializerBase (whose _field_map is {})
Builtins ==
    [c \in ClassNames |->
        CASE c = "object" -> PlainClass(<<>>, <<"object">>)
          [] c = "Field" -> PlainClass(<<"object">>, <<"Field", "object">>)
          [] c = "SerializerBase" ->
               PlainClass(<<"Field">>, <<"SerializerBase", "Field", "object">>)
          [] OTHER -> Undefined]

\* class Serializer(six.with_metaclass(SerializerMeta, SerializerBase))
WithSerializer(reg) ==
    [reg EXCEPT !["Serializer"] =
        New(reg, "Serializer", <<"SerializerBase">>, <<>>, {}, "attrgetter").val]

\* class DictSerializer(Serializer)
WithDictSerializer(reg) ==
    [reg EXCEPT !["DictSerializer"] =
        New(reg, "DictSerializer", <<"Serializer">>, <<>>, {}, "itemgetter").val]

\* the classes the library itself defines
Library == WithDictSerializer(WithSerializer(Builtins))

---------------------------------------------------------------------------
(* serializer.py: the serialization engine *)

\* self._data: None, a dict (to_value with many=False) or a list of dicts
NoneData == [kind |-> "None", items |-> <<>>]
DictData(d) == [kind |-> "dict", items |-> <<d>>]
ListData(ds) == [kind |-> "list", items |-> ds]

Returned(d) == [exc |-> "", val |-> d]
Raised(e) == [exc |-> e, val |-> NoneData]

\* getter(instance) / getter(self, instance): operator.attrgetter and
\* operator.itemgetter fail on an absent name; a method reads its key
CallGetter(getter, obj) ==
    LET x == obj[IF getter.kind = "method" THEN MethodKey(getter.key) ELSE getter.key]
    IN  IF x # Missing THEN Ok(x)
        ELSE IF getter.kind = "itemgetter"
                \/ (getter.kind = "method" /\ getter.key = "get_bar")
             THEN Raise("KeyError")
             ELSE Raise("AttributeError")

\* the except clause of _serialize
Recoverable(exc) == exc \in {"KeyError", "AttributeError"}

\* `if required or result is not None`
GateConvertNotNone(required, result) == result # None
ConvertGate(required, result) == required \/ result # None

\* the outcome of the converter, with the steps attempted so far
Converted(conv, log) == [exc |-> conv.exc, val |-> conv.val, log |-> log]

\* lines 169-170: `if to_value: result = to_value(result)`, after the call
\* step with outcome called
ConvertAfterCall(f, i, called, log) ==
    IF called.exc # "" THEN [exc |-> called.exc, val |-> None, log |-> log]
    ELSE IF f.to_value # None
         THEN Converted(ApplyToValue(f.to_value, called.val),
                        log \o << <<i, "to_value">> >>)
         ELSE [exc |-> "", val |-> called.val, log |-> log]

\* lines 167-170: the invoke and convert steps of one field, after a
\* successful retrieval; log holds the steps attempted
CallThenConvert(f, i, result) ==
    ConvertAfterCall(f, i,
        IF f.call THEN Invoke(result) ELSE Ok(result),
        IF f.call THEN << <<i, "call">> >> ELSE <<>>)

\* a step of the loop body: op "set" writes v[name] = val, "continue" skips
\* the field, "raise" leaves _serialize with exc; log holds the calls made
Step(op, exc, val, log) == [op |-> op, exc |-> exc, val |-> val, log |-> log]

\* line 157 done with outcome r: the result is the field's value
ContextResult(r, got) ==
    IF r.exc # "" THEN Step("raise", r.exc, None, got)
    ELSE Step("set", "", r.val, got)

\* lines 156-157: result = getter(self, instance), outside any try
ContextStep(f, i, obj) ==
    ContextResult(CallGetter(f.getter, obj), << <<i, "getter_self">> >>)

\* lines 161-165: the except clause around getter(instance)
OnRetrievalFailureWritesNone(required, exc, log) ==
    IF Recoverable(exc) /\ ~required THEN Step("set", "", None, log)
    ELSE Step("raise", exc, None, log)
OnRetrievalFailureSkips(required, exc, log) ==
    IF Recoverable(exc) THEN Step("continue", "", None, log)
    ELSE Step("raise", exc, None, log)
OnRetrievalFailure(required, exc, log) ==
    IF Recoverable(exc) /\ ~required THEN Step("continue", "", None, log)
    ELSE Step("raise", exc, None, log)

\* lines 167-170 done with outcome c: a failure there is outside the try
AfterConvertGuarded(f, c, got) ==
    IF c.exc # "" THEN OnRetrievalFailure(f.required, c.exc, got \o c.log)
    ELSE Step("set", "", c.val, got \o c.log)
AfterConvert(f, c, got) ==
    Step(IF c.exc # "" THEN "raise" ELSE "set", c.exc, c.val, got \o c.log)

\* lines 161-170, getter(instance) done with outcome r
AfterGetter(f, i, r, got) ==
    IF r.exc # "" THEN OnRetrievalFailure(f.required, r.exc, got)
    ELSE IF ConvertGate(f.required, r.val)
         THEN AfterConvert(f, CallThenConvert(f, i, r.val), got)
         ELSE Step("set", "", r.val, got)

\* lines 159-170: the branch of a field whose getter takes the subject alone
PlainStep(f, i, obj) ==
    AfterGetter(f, i, CallGetter(f.getter, obj), << <<i, "getter">> >>)

\* lines 156-171: the body of the loop for field i
FieldStepNoContext(f, i, obj) == PlainStep(f, i, obj)
FieldStep(f, i, obj) ==
    IF f.pass_self THEN ContextStep(f, i, obj) ELSE PlainStep(f, i, obj)

RECURSIVE SerializeFrom(_, _, _, _, _)

\* the loop after the body ran for field i with step s
Advance(obj, fields, i, v, log, s) ==
    IF s.op = "raise"
    THEN [obj |-> obj, exc |-> s.exc, v |-> v, log |-> log \o s.log]
    ELSE SerializeFrom(obj, fields, i + 1,
             IF s.op = "set" THEN DictSet(v, fields[i].name, s.val) ELSE v,
             IF s.op = "set" THEN log \o s.log \o << <<i, "set">> >>
             ELSE log \o s.log)

\* Serializer._serialize: the loop from field i on, v and log so far
SerializeFrom(obj, fields, i, v, log) ==
    IF i > Len(fields) THEN [obj |-> obj, exc |-> "", v |-> v, log |-> log]
    ELSE Advance(obj, fields, i, v, log, FieldStep(fields[i], i, obj))

_serialize(obj, fields) == SerializeFrom(obj, fields, 1, <<>>, <<>>)

RECURSIVE SerializeEach(_, _)

\* the comprehension after element run r: an exception ends it
EachAfter(r, rest, fields) ==
    IF r.exc # "" THEN <<r>> ELSE <<r>> \o SerializeEach(rest, fields)

\* [serialize(o, fields) for o in instance]: the runs made, first failure last
SerializeEach(objs, fields) ==
    IF objs = <<>> THEN <<>>
    ELSE EachAfter(_serialize(Head(objs), fields), Tail(objs), fields)

\* what to_value gives for the runs rs: the first failure, else the list of
\* the mappings (many) or the one mapping
Outcome(many, rs) ==
    [out |-> IF rs # <<>> /\ rs[Len(rs)].exc # "" THEN Raised(rs[Len(rs)].exc)
             ELSE IF many THEN Returned(ListData([i \in 1..Len(rs) |-> rs[i].v]))
             ELSE Returned(DictData(rs[1].v)),
     runs |-> rs]

\* Serializer.to_value: the outcome and the _serialize runs behind it
to_value(many, objs, fields) == Outcome(many, SerializeEach(objs, fields))

\* `if self._data is None`
CacheMissFalsy(d) == d = NoneData \/ d.items = <<>> \/ d.items = << <<>> >>
CacheMissAlways(d) == TRUE
CacheMiss(d) == d = NoneData

---------------------------------------------------------------------------
(* State machine *)

Threads == {"t1", "t2"}

NoInstance ==
    [state |-> "none", cls |-> "", instance |-> <<>>, many |-> FALSE, exc |-> ""]

\* history: executions of the plan, writes of self._data, finished reads of
\* .data per thread, subject mutations, the classes defined and the outcome of
\* the last class statement, the arguments given to the constructor
NoHistory ==
    [execs |-> 0, writes |-> 0, reads |-> [t \in Threads |-> 0],
     mutations |-> 0, defined |-> <<>>, defExc |-> "",
     args |-> [many |-> FALSE, data |-> None, context |-> None]]

\* Serializer.__init__, line 132: `if data is not None`
RejectsDataNever(data) == FALSE
RejectsData(data) == data # None

\* Serializer.__init__(instance, many, data, context): rejects input data;
\* context is accepted and dropped
Construct(cls, objs, many, data, context) ==
    /\ inst.state = "none"
    /\ classes[cls].defined
    /\ IsSerializerBase(classes, classes[cls].mro)
    /\ IF RejectsData(data)
       THEN inst' = [NoInstance EXCEPT !.state = "error", !.exc = "RuntimeError"]
       ELSE inst' = [state |-> "ok", cls |-> cls, instance |-> objs,
                     many |-> many, exc |-> ""]
    /\ data_' = NoneData
    /\ hist' = [hist EXCEPT !.args = [many |-> many, data |-> data, context |-> context]]
    /\ UNCHANGED <<classes, threads, pc, ret, runs>>

\* Serializer.data, line 191: the test of self._data
DataCheck(t) ==
    /\ t \in threads
    /\ inst.state = "ok"
    /\ pc[t] = "idle"
    /\ hist.reads[t] < MaxReads
    /\ pc' = [pc EXCEPT ![t] = IF CacheMiss(data_) THEN "compute" ELSE "return"]
    /\ UNCHANGED <<classes, threads, inst, data_, ret, runs, hist>>

\* line 192 with to_value's outcome r: an exception leaves .data, a value is
\* stored
Store(t, r) ==
    /\ runs' = [runs EXCEPT ![t] = r.runs]
    /\ IF r.out.exc # ""
       THEN /\ ret' = [ret EXCEPT ![t] = r.out]
            /\ pc' = [pc EXCEPT ![t] = "idle"]
            /\ hist' = [hist EXCEPT !.execs = @ + 1, !.reads[t] = @ + 1]
            /\ UNCHANGED data_
       ELSE /\ data_' = r.out.val
            /\ pc' = [pc EXCEPT ![t] = "return"]
            /\ hist' = [hist EXCEPT !.execs = @ + 1, !.writes = @ + 1]
            /\ UNCHANGED ret

\* Serializer.data, line 192: self._data = self.to_value(self.instance)
DataCompute(t) ==
    /\ pc[t] = "compute"
    /\ Store(t, to_value(inst.many, inst.instance, classes[inst.cls].compiled_fields))
    /\ UNCHANGED <<classes, threads, inst>>

\* Serializer.data, line 193: return self._data
DataReturn(t) ==
    /\ pc[t] = "return"
    /\ ret' = [ret EXCEPT ![t] = Returned(data_)]
    /\ pc' = [pc EXCEPT ![t] = "idle"]
    /\ hist' = [hist EXCEPT !.reads[t] = @ + 1]
    /\ UNCHANGED <<classes, threads, inst, data_, runs>>

\* the owner of the subject sets (or, with Missing, deletes) attribute k of
\* element n
Mutate(n, k, x) ==
    /\ inst.state = "ok"
    /\ hist.mutations < MaxMutations
    /\ n \in 1..Len(inst.instance)
    /\ inst.instance[n][k] # x
    /\ inst' = [inst EXCEPT !.instance[n][k] = x]
    /\ hist' = [hist EXCEPT !.mutations = @ + 1]
    /\ UNCHANGED <<classes, threads, data_, pc, ret, runs>>

\* the class statement done with outcome r of SerializerMeta.__new__
Register(name, r) ==
    IF r.exc # ""
    THEN /\ hist' = [hist EXCEPT !.defExc = r.exc]
         /\ UNCHANGED classes
    ELSE /\ classes' = [classes EXCEPT ![name] = r.val]
         /\ hist' = [hist EXCEPT !.defExc = "", !.defined = Append(@, name)]

\* a class statement `class name(*bases)` run through SerializerMeta.__new__
DefineClass(name, bases, direct_fields, methods) ==
    /\ ~classes[name].defined
    /\ \A i \in 1..Len(bases) : classes[bases[i]].defined
    /\ Register(name, New(classes, name, bases, direct_fields, methods, ""))
    /\ UNCHANGED <<threads, inst, data_, pc, ret, runs>>

---------------------------------------------------------------------------
(* Specification of the engine: one serializer class, one thread *)

\* descriptors a class body declares for the engine runs
EngineDescriptors ==
    {Descriptor(type, "", call, label, required, "", "Base") :
        type \in FieldTypes, call \in BOOLEAN, label \in {"", "out"},
        required \in BOOLEAN}

\* class bodies: foo, then bar
EngineFieldMaps ==
    {<<>>} \cup {<< <<"foo", d>> >> : d \in EngineDescriptors}
           \cup {<< <<"foo", d>>, <<"bar", e>> >> :
                    d \in EngineDescriptors, e \in EngineDescriptors}

\* the program's one class statement: class Base(*bases) with the body fm
\* and the methods get_foo and get_bar
WithBase(reg, bases, fm) ==
    [reg EXCEPT !["Base"] = New(reg, "Base", bases, fm, MethodNames, "").val]

InitInstance ==
    /\ inst = NoInstance
    /\ data_ = NoneData
    /\ pc = [t \in Threads |-> "idle"]
    /\ ret = [t \in Threads |-> Returned(NoneData)]
    /\ runs = [t \in Threads |-> <<>>]
    /\ hist = NoHistory

Init ==
    /\ \E fm \in EngineFieldMaps, base \in {"Serializer", "DictSerializer"} :
          classes = WithBase(Library, <<base>>, fm)
    /\ threads = {"t1"}
    /\ InitInstance

Next ==
    \/ \E obj \in Objects, data \in {None, "raw"} :
          Construct("Base", <<obj>>, FALSE, data, None)
    \/ \E t \in Threads : DataCheck(t)
    \/ \E t \in Threads : DataCompute(t)
    \/ \E t \in Threads : DataReturn(t)

Spec == Init /\ [][Next]_vars

---------------------------------------------------------------------------
(* Specifications of the result cache: repeated reads of .data, a subject  *)
(* that changes between them, many=True, and two threads sharing one       *)
(* instance                                                                *)

\* class bodies with at most the field foo
CacheFieldMaps == {<<>>} \cup {<< <<"foo", d>> >> : d \in EngineDescriptors}

\* subjects without the attribute bar
CacheObjects == {o \in Objects : o["bar"] = Missing}

\* sequences over S of length at most n
RECURSIVE SeqsUpTo(_, _)
SeqsUpTo(S, n) ==
    IF n = 0 THEN {<<>>}
    ELSE LET shorter == SeqsUpTo(S, n - 1)
         IN  shorter \cup {Append(q, x) : q \in shorter, x \in S}

InitCache ==
    /\ \E fm \in CacheFieldMaps :
          classes = WithBase(Library, <<"Serializer">>, fm)
    /\ threads = {"t1"}
    /\ InitInstance

NextCache ==
    \/ \E obj \in CacheObjects, data \in {None, "raw"}, context \in {None, "ctx"} :
          Construct("Base", <<obj>>, FALSE, data, context)
    \/ \E objs \in SeqsUpTo(CacheObjects, MaxObjs), data \in {None, "raw"},
          context \in {None, "ctx"} :
          Construct("Base", objs, TRUE, data, context)
    \/ \E t \in Threads : DataCheck(t)
    \/ \E t \in Threads : DataCompute(t)
    \/ \E t \in Threads : DataReturn(t)
    \/ \E n \in 1..MaxObjs, x \in Values \cup {Missing} : Mutate(n, "foo", x)

SpecCache == InitCache /\ [][NextCache]_vars

InitRace ==
    /\ \E fm \in CacheFieldMaps :
          classes = WithBase(Library, <<"Serializer">>, fm)
    /\ threads \in {{"t1"}, Threads}
    /\ InitInstance

\* the subject is left alone while the threads read
NextRace ==
    \/ \E obj \in CacheObjects : Construct("Base", <<obj>>, FALSE, None, None)
    \/ \E objs \in SeqsUpTo(CacheObjects, MaxObjs) :
          Construct("Base", objs, TRUE, None, None)
    \/ \E t \in Threads : DataCheck(t)
    \/ \E t \in Threads : DataCompute(t)
    \/ \E t \in Threads : DataReturn(t)

SpecRace == InitRace /\ [][NextRace]_vars

---------------------------------------------------------------------------
(* Specification of the compiler: a program's class statements *)

FieldNames == <<"foo", "bar">>

\* the descriptor the body of class cls declares under a field name: each
\* class uses its own field type, source attribute, label and flags
DeclaredIn(cls) ==
    CASE cls = "Base" -> Descriptor("Field", "", FALSE, "", TRUE, "", cls)
      [] cls = "A" -> Descriptor("IntField", "src", TRUE, "", FALSE, "", cls)
      [] cls = "B" -> Descriptor("StrField", "", FALSE, "out", FALSE, "", cls)
      [] OTHER -> Descriptor("MethodField", "", FALSE, "", TRUE, "get_foo", cls)

\* class bodies: any ordered choice of distinct field names
ClassBodies(cls) ==
    {<<>>} \cup {<< <<n, DeclaredIn(cls)>> >> : n \in SeqToSet(FieldNames)}
           \cup {<< <<p[1], DeclaredIn(cls)>>, <<p[2], DeclaredIn(cls)>> >> :
                    p \in {q \in SeqToSet(FieldNames) \X SeqToSet(FieldNames) :
                              q[1] # q[2]}}

\* base lists: Serializer, a class defined so far, or two distinct classes
\* defined so far
BaseLists ==
    LET avail == SeqToSet(hist.defined)
    IN  {<<b>> : b \in avail \cup {"Serializer"}}
            \cup {p \in avail \X avail : p[1] # p[2]}

InitCompile ==
    /\ classes = Library
    /\ threads = {}
    /\ InitInstance

NextCompile ==
    \E bases \in BaseLists :
        /\ Len(hist.defined) < Len(UserClasses)
        /\ \E body \in ClassBodies(UserClasses[Len(hist.defined) + 1]) :
              DefineClass(UserClasses[Len(hist.defined) + 1], bases, body, MethodNames)

SpecCompile == InitCompile /\ [][NextCompile]_vars

---------------------------------------------------------------------------
(* Properties of the engine (specification Spec) *)

\* the plan of the instance's class
Plan == classes[inst.cls].compiled_fields

InLog(log, e) == \E k \in 1..Len(log) : log[k] = e
\* the loop body ran for field i
Reached(r, i) == \E k \in 1..Len(r.log) : r.log[k][1] = i
\* the subject key the accessor of f reads
SourceKey(f) == IF f.getter.kind = "method" THEN MethodKey(f.getter.key) ELSE f.getter.key
\* the subject of run r lacks the source of f
Lacks(r, f) == r.obj[SourceKey(f)] = Missing
\* a later field wrote the same output label
Overwritten(r, i) ==
    \E j \in (i + 1)..Len(Plan) : Plan[j].name = Plan[i].name /\ InLog(r.log, <<j, "set">>)
\* the plan with record i taken out
Without(fields, i) ==
    [j \in 1..(Len(fields) - 1) |-> IF j < i THEN fields[j] ELSE fields[j + 1]]
\* the failure an absent name raises through the default getter
RetrievalFailure(f) == IF f.getter.kind = "itemgetter" THEN "KeyError" ELSE "AttributeError"

\* C1: an optional non-context field whose accessor fails on the subject is
\* left out: neither invoke nor convert runs for it, it writes no entry (the
\* label is present only if another field wrote it), the loop goes on with
\* the next field, and the outcome is that of the plan without this field.
C1_OptionalMissingOmitted ==
    \A t \in Threads : \A k \in 1..Len(runs[t]) : \A i \in 1..Len(Plan) :
        LET r == runs[t][k]
            f == Plan[i]
        IN  (~f.required /\ ~f.pass_self /\ Lacks(r, f) /\ Reached(r, i)) =>
               /\ ~InLog(r.log, <<i, "call">>)
               /\ ~InLog(r.log, <<i, "to_value">>)
               /\ ~InLog(r.log, <<i, "set">>)
               /\ DictHas(r.v, f.name) =>
                     \E j \in 1..Len(Plan) :
                        j # i /\ Plan[j].name = f.name /\ InLog(r.log, <<j, "set">>)
               /\ i < Len(Plan) => Reached(r, i + 1)
               /\ LET q == _serialize(r.obj, Without(Plan, i))
                  IN  q.v = r.v /\ q.exc = r.exc

\* C1 witness: the first of two fields was omitted, the second written, and
\* the read returned the mapping without the first label
C1_Witness ==
    /\ inst.state = "ok" /\ Len(Plan) = 2 /\ Len(runs["t1"]) = 1
    /\ LET r == runs["t1"][1]
       IN  /\ ~Plan[1].required /\ ~Plan[1].pass_self /\ Lacks(r, Plan[1])
           /\ InLog(r.log, <<1, "getter">>) /\ InLog(r.log, <<2, "set">>)
           /\ ~DictHas(r.v, Plan[1].name)
           /\ hist.reads["t1"] = 1 /\ ret["t1"] = Returned(DictData(r.v))

\* C2: a required non-context field whose source the subject lacks makes the
\* read raise the retrieval failure: the getter call is the last thing the
\* run did, no later field and no later element is processed, the caller
\* gets the exception and nothing is stored.
C2_RequiredMissingAborts ==
    \A t \in Threads : \A k \in 1..Len(runs[t]) : \A i \in 1..Len(Plan) :
        LET r == runs[t][k]
            f == Plan[i]
        IN  (f.required /\ ~f.pass_self /\ Lacks(r, f) /\ Reached(r, i)) =>
               /\ r.exc = RetrievalFailure(f)
               /\ r.log[Len(r.log)] = <<i, "getter">>
               /\ \A j \in (i + 1)..Len(Plan) : ~Reached(r, j)
               /\ k = Len(runs[t])
               /\ ret[t] = Raised(r.exc)
               /\ data_ = NoneData

\* C2 witness: the first of two fields is required and absent, the read raised
C2_Witness ==
    /\ inst.state = "ok" /\ Len(Plan) = 2 /\ Len(runs["t1"]) = 1
    /\ LET r == runs["t1"][1]
       IN  /\ Plan[1].required /\ ~Plan[1].pass_self /\ Lacks(r, Plan[1])
           /\ Reached(r, 1) /\ ~Lacks(r, Plan[2])
           /\ hist.reads["t1"] = 1 /\ ret["t1"].exc = "KeyError"

\* C3: after a successful retrieval of a non-context field, invoke runs iff
\* the call flag is set and (required or value not None); the converter runs
\* iff one is bound, (required or value not None) and invoke did not fail;
\* invoke comes before the converter; the value written is the converter's
\* result of invoke's result; an optional None is written as None untouched.
C3_InvokeConvertGate ==
    \A t \in Threads : \A k \in 1..Len(runs[t]) : \A i \in 1..Len(Plan) :
        LET r == runs[t][k]
            f == Plan[i]
            x == r.obj[SourceKey(f)]
            gate == f.required \/ x # None
            called == IF f.call THEN Invoke(x) ELSE Ok(x)
            conv == IF f.to_value # None THEN ApplyToValue(f.to_value, called.val)
                    ELSE called
        IN  (~f.pass_self /\ ~Lacks(r, f) /\ Reached(r, i)) =>
               /\ InLog(r.log, <<i, "call">>) <=> (gate /\ f.call)
               /\ InLog(r.log, <<i, "to_value">>) <=>
                     (gate /\ f.to_value # None /\ called.exc = "")
               /\ \A a, b \in 1..Len(r.log) :
                     (r.log[a] = <<i, "call">> /\ r.log[b] = <<i, "to_value">>) => a < b
               /\ (~f.required /\ x = None) => InLog(r.log, <<i, "set">>)
               /\ (InLog(r.log, <<i, "set">>) /\ ~Overwritten(r, i)) =>
                     DictGet(r.v, f.name) = IF gate THEN conv.val ELSE None

\* C3 witness: one run in which a required field holding None had its
\* converter applied to None, and an optional field holding None, with the
\* call flag and a converter, was written as None
C3_Witness ==
    /\ inst.state = "ok" /\ Len(Plan) = 2 /\ Len(runs["t1"]) = 1
    /\ LET r == runs["t1"][1]
       IN  /\ ~Plan[1].pass_self /\ Plan[1].required /\ Plan[1].to_value = "str"
           /\ r.obj[SourceKey(Plan[1])] = None
           /\ InLog(r.log, <<1, "to_value">>)
           /\ ~Plan[2].pass_self /\ ~Plan[2].required /\ Plan[2].call
           /\ Plan[2].to_value = "int" /\ r.obj[SourceKey(Plan[2])] = None
           /\ Plan[1].name # Plan[2].name
           /\ r.v = << <<Plan[1].name, "'None'">>, <<Plan[2].name, None>> >>
           /\ ret["t1"] = Returned(DictData(r.v))

\* C6: a record that takes the serializer has its accessor called with
\* (serializer, subject) and its result written as returned: no invoke, no
\* converter, None written as None, and a failure of the accessor leaves the
\* run with that failure whether or not the field is required.
C6_ContextFieldDirect ==
    \A t \in Threads : \A k \in 1..Len(runs[t]) : \A i \in 1..Len(Plan) :
        LET r == runs[t][k]
            f == Plan[i]
        IN  (f.pass_self /\ Reached(r, i)) =>
               /\ InLog(r.log, <<i, "getter_self">>)
               /\ ~InLog(r.log, <<i, "getter">>)
               /\ ~InLog(r.log, <<i, "call">>)
               /\ ~InLog(r.log, <<i, "to_value">>)
               /\ IF Lacks(r, f)
                  THEN /\ r.exc \in {"KeyError", "AttributeError"}
                       /\ r.log[Len(r.log)] = <<i, "getter_self">>
                       /\ ret[t] = Raised(r.exc)
                  ELSE /\ InLog(r.log, <<i, "set">>)
                       /\ ~Overwritten(r, i) =>
                             DictGet(r.v, f.name) = r.obj[SourceKey(f)]

\* C6 witness: a context field with the call flag and a converter wrote the
\* None its method returned, then an optional context field whose method
\* failed made the read raise
C6_Witness ==
    /\ inst.state = "ok" /\ Len(Plan) = 2 /\ Len(runs["t1"]) = 1
    /\ LET r == runs["t1"][1]
       IN  /\ Plan[1].pass_self /\ Plan[1].call /\ Plan[1].to_value = "int"
           /\ r.obj[SourceKey(Plan[1])] = None
           /\ r.v = << <<Plan[1].name, None>> >>
           /\ Plan[2].pass_self /\ ~Plan[2].required /\ Lacks(r, Plan[2])
           /\ Reached(r, 2)
           /\ ret["t1"] = Raised("KeyError")

\* C8: when the invoke step or the converter of a non-context field fails,
\* the run ends with that failure for required and optional fields alike
\* (a KeyError included), nothing is written for the field and the caller
\* gets the exception; a field is skipped only when its retrieval failed.
C8_ConversionFailurePropagates ==
    \A t \in Threads : \A k \in 1..Len(runs[t]) : \A i \in 1..Len(Plan) :
        LET r == runs[t][k]
            f == Plan[i]
            x == r.obj[SourceKey(f)]
            gate == f.required \/ x # None
            called == IF f.call THEN Invoke(x) ELSE Ok(x)
            conv == IF f.to_value # None THEN ApplyToValue(f.to_value, called.val)
                    ELSE called
            stepExc == IF ~gate THEN ""
                       ELSE IF called.exc # "" THEN called.exc ELSE conv.exc
            skipped == /\ ~InLog(r.log, <<i, "set">>)
                       /\ r.exc = "" \/ \E j \in (i + 1)..Len(Plan) : Reached(r, j)
        IN  (~f.pass_self /\ Reached(r, i)) =>
               /\ (~Lacks(r, f) /\ stepExc # "") =>
                     /\ r.exc = stepExc
                     /\ ~InLog(r.log, <<i, "set">>)
                     /\ \A j \in (i + 1)..Len(Plan) : ~Reached(r, j)
                     /\ ret[t] = Raised(stepExc)
               /\ skipped => (Lacks(r, f) /\ ~f.required)

\* C8 witness: an optional field whose invoke step raised KeyError, followed
\* by another field, and the read raised KeyError
C8_Witness ==
    /\ inst.state = "ok" /\ Len(Plan) = 2 /\ Len(runs["t1"]) = 1
    /\ LET r == runs["t1"][1]
       IN  /\ ~Plan[1].pass_self /\ ~Plan[1].required /\ Plan[1].call
           /\ r.obj[SourceKey(Plan[1])] = "fnKey"
           /\ r.log = << <<1, "getter">>, <<1, "call">> >>
           /\ ret["t1"] = Raised("KeyError")

---------------------------------------------------------------------------
(* Properties of the constructor and the result cache *)

\* C7: a constructor call raises RuntimeError exactly when input data is
\* given (data not None), whatever the subject, many and context are; then
\* there is no instance: no plan ever runs, nothing is read or stored.
C7_InputDataRejected ==
    inst.state # "none" =>
        /\ inst.state = "error" <=> hist.args.data # None
        /\ inst.state = "error" =>
              /\ inst.exc = "RuntimeError"
              /\ inst.cls = ""
              /\ hist.execs = 0 /\ hist.writes = 0
              /\ data_ = NoneData
              /\ \A t \in Threads :
                    runs[t] = <<>> /\ pc[t] = "idle" /\ hist.reads[t] = 0

\* C7 witness: a constructor call with many=True, a context and input data
\* raised
C7_Witness ==
    /\ inst.state = "error"
    /\ hist.args = [many |-> TRUE, data |-> "raw", context |-> "ctx"]

\* C4: once a result is stored, no step runs the plan or changes the stored
\* result again, whatever happens to the subject; and every read that
\* returns a value returns the stored result, which is never None.
C4_CachedResultReused ==
    [][/\ data_ # NoneData =>
             (data_' = data_ /\ hist'.execs = hist.execs /\ runs' = runs)
       /\ \A t \in Threads :
             (hist'.reads[t] = hist.reads[t] + 1 /\ ret'[t].exc = "") =>
                (ret'[t].val = data_' /\ data_' # NoneData)]_vars

\* C4 witness: an empty mapping was stored, the subject then changed so that
\* running the plan again would give another result, and a second read
\* returned the stored empty mapping after a single run of the plan
C4_Witness ==
    /\ inst.state = "ok" /\ ~inst.many
    /\ data_ = DictData(<<>>)
    /\ hist.mutations = 1
    /\ to_value(inst.many, inst.instance, Plan).out # Returned(data_)
    /\ hist.reads["t1"] = 2 /\ hist.execs = 1
    /\ ret["t1"] = Returned(data_)

\* C4 witness for many=True: the stored result is the empty list
C4_WitnessEmptyList ==
    /\ inst.state = "ok" /\ inst.many
    /\ data_ = ListData(<<>>)
    /\ hist.reads["t1"] = 2 /\ hist.execs = 1
    /\ ret["t1"] = Returned(data_)

\* C9: with one thread self._data is written at most once per instance; with
\* several threads each thread writes it at most once.
C9_SingleThreadWritesOnce ==
    /\ threads = {"t1"} => hist.writes <= 1
    /\ hist.writes <= Cardinality(threads)

\* C9 witness: two threads in their first read both found the cache empty,
\* both ran the whole plan and self._data was written twice
C9_Witness ==
    /\ threads = Threads
    /\ \A t \in Threads : hist.reads[t] = 0 /\ pc[t] = "return" /\ runs[t] # <<>>
    /\ hist.execs = 2 /\ hist.writes = 2

---------------------------------------------------------------------------
(* Properties of the compiler (specification SpecCompile) *)

\* the field maps merged into class c, oldest ancestor first, its own
\* declarations last
MergeSequence(c) ==
    LET anc == SelectSeq(Reverse(Tail(classes[c].mro)),
                         LAMBDA a : IsSerializerBase(classes, classes[a].mro))
    IN  [i \in 1..Len(anc) |-> classes[anc[i]].field_map] \o <<classes[c].direct>>

RECURSIVE Flatten(_)
Flatten(maps) == IF maps = <<>> THEN <<>> ELSE Head(maps) \o Flatten(Tail(maps))

\* the names of a sequence of entries in order of first occurrence
RECURSIVE FirstOccurrences(_, _)
FirstOccurrences(entries, seen) ==
    IF entries = <<>> THEN <<>>
    ELSE IF Head(entries)[1] \in seen THEN FirstOccurrences(Tail(entries), seen)
    ELSE <<Head(entries)[1]>>
            \o FirstOccurrences(Tail(entries), seen \cup {Head(entries)[1]})

\* the descriptor of the last entry under name n
LastUnder(entries, n) ==
    LET at == {i \in 1..Len(entries) : entries[i][1] = n}
    IN  entries[CHOOSE i \in at : \A j \in at : j <= i][2]

Position(names, n) == CHOOSE i \in 1..Len(names) : names[i] = n

\* C5: the names of a class's plan stand in order of first occurrence across
\* the merge sequence, so a re-declared name keeps its inherited position and
\* only new names follow the inherited ones; each name carries the last
\* descriptor declared for it, a direct declaration winning; and the record
\* compiled at that position has that descriptor's label, accessor, converter
\* and flags.
C5_OverrideKeepsPosition ==
    \A n \in 1..Len(hist.defined) :
        LET c == hist.defined[n]
            cls == classes[c]
            inherited == Flatten(SubSeq(MergeSequence(c), 1, Len(MergeSequence(c)) - 1))
            old == FirstOccurrences(inherited, {})
            names == DictKeys(cls.field_map)
        IN  /\ names = FirstOccurrences(Flatten(MergeSequence(c)), {})
            /\ Len(cls.compiled_fields) = Len(names)
            /\ \A i \in 1..Len(names) :
                  LET d == cls.field_map[i][2]
                      rec == cls.compiled_fields[i]
                  IN  /\ d = LastUnder(Flatten(MergeSequence(c)), names[i])
                      /\ DictHas(cls.direct, names[i]) =>
                            /\ d = DictGet(cls.direct, names[i])
                            /\ IF names[i] \in SeqToSet(old)
                               THEN i = Position(old, names[i])
                               ELSE i > Len(old)
                      /\ rec.id = d.id
                      /\ rec.name = (IF d.label # "" THEN d.label ELSE names[i])
                      /\ rec.call = d.call /\ rec.required = d.required
                      /\ rec.pass_self = getter_takes_serializer(d.type)
                      /\ rec.to_value = (IF ToValueOf(d.type) = "base" THEN None
                                         ELSE ToValueOf(d.type))
                      /\ rec.getter =
                            (IF getter_takes_serializer(d.type)
                             THEN [kind |-> "method",
                                   key |-> IF d.method # "" THEN d.method
                                           ELSE DefaultMethodName(names[i])]
                             ELSE [kind |-> "attrgetter",
                                   key |-> IF d.attr # "" THEN d.attr ELSE names[i]])

\* C5 witness: Base declares foo; A(Base) declares bar and then foo again:
\* A's plan is foo (A's descriptor, in first place) followed by the new bar
C5_Witness ==
    /\ classes["A"].defined
    /\ classes["A"].bases = <<"Base">>
    /\ DictKeys(classes["Base"].field_map) = <<"foo">>
    /\ DictKeys(classes["A"].direct) = <<"bar", "foo">>
    /\ DictKeys(classes["A"].field_map) = <<"foo", "bar">>
    /\ classes["A"].compiled_fields[1].id = "A"
    /\ classes["A"].compiled_fields[1].to_value = "int"
    /\ classes["Base"].compiled_fields[1].id = "Base"

\* the nearest class of c's linearized ancestor order that declares name
NearestDeclaring(c, name) ==
    LET mro == classes[c].mro
        at == {i \in 1..Len(mro) : DictHas(classes[mro[i]].direct, name)}
    IN  mro[CHOOSE i \in at : \A j \in at : i <= j]

\* C10: for every class and every name of its plan, the descriptor used is
\* the one declared by the nearest class of its linearized ancestor order
\* that declares the name.
C10_FieldsFollowMro ==
    \A n \in 1..Len(hist.defined) :
        LET c == hist.defined[n]
        IN  \A i \in 1..Len(classes[c].field_map) :
               /\ classes[c].field_map[i][2].id
                     = NearestDeclaring(c, classes[c].field_map[i][1])
               /\ classes[c].compiled_fields[i].id
                     = NearestDeclaring(c, classes[c].field_map[i][1])

====
